---- MODULE Spec2Model ----
(***************************************************************************)
(* AI response orchestration of aipersona_backend: GeminiService           *)
(* (app/services/gemini_service.py), the per-user UsageTracking row        *)
(* (app/models/user.py) and the /ai endpoints (app/api/v1/ai.py).          *)
(*                                                                         *)
(* A request is one call of generate_response (buffered) or one run of the *)
(* generate_streaming_response generator (streamed).  Every request works  *)
(* on its own SQLAlchemy session (Depends(get_db)); the session keeps the  *)
(* attributes it loaded until a commit expires them, so the model keeps,   *)
(* per request, the copy of the usage row the session holds ("snap").      *)
(* The provider calls are the only suspension points; the code between two *)
(* of them is one action.                                                  *)
(***************************************************************************)
EXTENDS Integers, Sequences, FiniteSets, TLC

\* ---------------------------------------------------------------- bounds
\* request slots that may be in flight at the same time
NumReq == 3
\* deltas one request delivers to its caller at most
MaxChunks == 2
\* midnights the clock runs through
MaxMidnights == 1
\* requests one caller makes one after the other
MaxSerial == 1
\* requests started in one burst of overlapping requests
MaxBurst == 3
\* personas one user creates or clones over a run
MaxPersonas == 4
\* stored messages of a chat session
MaxTurns == 3
\* words of a message text
MaxWords == 2
MaxEntries == 2

\* ---------------------------------------------------- program constants
\* settings.FREE_TIER_MESSAGE_LIMIT
FREE_TIER_MESSAGE_LIMIT == 25

Reqs == 1..NumReq
Users == {"free", "prem"}
Modes == {"buffered", "stream"}

\* text deltas a provider stream can deliver
Chunks == {"a", "bbbb"}

\* failures a provider call can raise: raise_for_status() on a 4xx/5xx
\* reply, or a transport error / 60 s timeout of the httpx client
Failures == {"http_401", "http_503", "timeout"}

\* complete texts a buffered provider call can return: up to n deltas joined
RECURSIVE TextsUpTo(_)
TextsUpTo(n) ==
    IF n = 0 THEN {""}
    ELSE LET shorter == TextsUpTo(n - 1)
         IN  shorter \cup {t \o c : t \in shorter, c \in Chunks}

Texts == TextsUpTo(MaxChunks)

NoTime == -1

\* a timestamp is a tick; the clock tells midnight (00:00:00) from later in
\* the day, so a UTC calendar day has two ticks
DayParts == {"midnight", "later"}
TicksPerDay == Cardinality(DayParts)
FirstTick == TicksPerDay
LastTick == FirstTick + MaxMidnights * TicksPerDay

\* datetime.date(): the UTC calendar day of a timestamp
Date(t) == t \div TicksPerDay

\* ------------------------------------------------------------ users table
\* the two accounts of the model: a free account and a paid one whose
\* subscription outlives the clock
UserRow(u) ==
    IF u = "free"
    THEN [subscription_tier |-> "free", subscription_expires_at |-> NoTime,
          grace_period_ends_at |-> NoTime]
    ELSE [subscription_tier |-> "premium", subscription_expires_at |-> LastTick + 1,
          grace_period_ends_at |-> NoTime]

PAID_TIERS == {"basic", "premium", "pro"}

\* User.is_in_grace_period
is_in_grace_period(user, t) ==
    IF user.grace_period_ends_at = NoTime THEN FALSE
    ELSE t < user.grace_period_ends_at

\* User.is_premium
is_premium(user, t) ==
    IF is_in_grace_period(user, t) THEN TRUE
    ELSE IF user.subscription_tier = "free" THEN FALSE
    ELSE IF user.subscription_tier \in PAID_TIERS
         THEN IF user.subscription_expires_at = NoTime THEN FALSE
              ELSE t < user.subscription_expires_at
    ELSE FALSE

\* ------------------------------------------------------- usage_tracking
NoRow == [present |-> FALSE]

UsageRow(m, a, k, t) ==
    [present |-> TRUE, messages_today |-> m, gemini_api_calls_today |-> a,
     gemini_tokens_used_total |-> k, messages_count_reset_at |-> t]

\* UsageTracking(user_id=...): the column defaults
NewUsageTracking(t) == UsageRow(0, 0, 0, t)

\* mutant: the api-call counter is left out of the reset
check_and_reset_daily_keeps_calls(row, t) ==
    IF Date(t) > Date(row.messages_count_reset_at)
    THEN [row EXCEPT !.messages_today = 0, !.messages_count_reset_at = t]
    ELSE row

\* mutant: the reset stores the time of the next reset
check_and_reset_daily_next_day(row, t) ==
    IF Date(t) > Date(row.messages_count_reset_at)
    THEN [row EXCEPT !.messages_today = 0,
                     !.gemini_api_calls_today = 0,
                     !.messages_count_reset_at = (Date(t) + 1) * TicksPerDay]
    ELSE row

\* UsageTracking.check_and_reset_daily
check_and_reset_daily(row, t) ==
    IF Date(t) > Date(row.messages_count_reset_at)
    THEN [row EXCEPT !.messages_today = 0,
                     !.gemini_api_calls_today = 0,
                     !.messages_count_reset_at = t]
    ELSE row

Allowed == [allowed |-> TRUE, limit |-> -1, used |-> -1]
NoDecision == [allowed |-> FALSE, limit |-> -1, used |-> -1]

\* mutant: the limit is compared with > instead of >=
LimitDecision_off_by_one(user, row, t) ==
    IF is_premium(user, t) THEN Allowed
    ELSE IF row.messages_today > FREE_TIER_MESSAGE_LIMIT
         THEN [allowed |-> FALSE, limit |-> FREE_TIER_MESSAGE_LIMIT,
               used |-> row.messages_today]
    ELSE Allowed

\* mutant: the limit applies to every tier
LimitDecision_no_premium(user, row, t) ==
    IF row.messages_today >= FREE_TIER_MESSAGE_LIMIT
    THEN [allowed |-> FALSE, limit |-> FREE_TIER_MESSAGE_LIMIT,
          used |-> row.messages_today]
    ELSE Allowed

\* GeminiService._check_usage_limits, after the reset: the decision
LimitDecision(user, row, t) ==
    IF is_premium(user, t) THEN Allowed
    ELSE IF row.messages_today >= FREE_TIER_MESSAGE_LIMIT
         THEN [allowed |-> FALSE, limit |-> FREE_TIER_MESSAGE_LIMIT,
               used |-> row.messages_today]
    ELSE Allowed

\* mutant: the api-call counter is not incremented
_update_usage_tracking_no_calls(row, tokens_used) ==
    [row EXCEPT !.messages_today = @ + 1,
                !.gemini_tokens_used_total = @ + tokens_used]

\* GeminiService._update_usage_tracking, on the row the session holds
_update_usage_tracking(row, tokens_used) ==
    [row EXCEPT !.messages_today = @ + 1,
                !.gemini_api_calls_today = @ + 1,
                !.gemini_tokens_used_total = @ + tokens_used]

\* usage.total_tokens of a provider's reply body: NoUsage when the body has
\* no usage object, else a total that counts the prompt as well
NoUsage == -1
ReportedUsage == {NoUsage, 7}

\* tokens_used = len(text) // 4
TokensOf(text) == Len(text) \div 4


\* the UPDATE the session flushes: only the columns it changed
Flush(db, held, tokens_used) ==
    [db EXCEPT !.messages_today = held.messages_today,
               !.gemini_api_calls_today = held.gemini_api_calls_today,
               !.gemini_tokens_used_total =
                   IF tokens_used = 0 THEN @ ELSE held.gemini_tokens_used_total]

\* ------------------------------------------------------------- the state
VARIABLES
    now,                 \* utc_now(), in ticks
    usage,               \* usage_tracking rows, by user
    conversation_count,  \* Persona.conversation_count of the persona
    req,                 \* the requests, by slot
    started,             \* requests started so far
    generated,           \* successful generations of the free user this UTC day
    call,                \* a call of one of the helpers: arguments and result
    personas,            \* personas table: the status of the user's personas
    personas_count       \* UsageTracking.personas_count of the user

\* the state no generation request reads or writes
apart == <<call, personas, personas_count>>

vars == <<now, usage, conversation_count, req, started, generated, apart>>

NoError == [src |-> "none", kind |-> "none"]
QuotaError == [src |-> "quota", kind |-> "usage_limit_exceeded"]
PersonaError == [src |-> "request", kind |-> "persona_not_found"]

NoResult ==
    [kind |-> "none", response |-> "", tokens_used |-> 0, model_used |-> "",
     limit |-> -1, used |-> -1, error |-> NoError]

\* the events of a stream; limit and used are -1 where the JSON object has
\* no such key
ChunkEvent(c) ==
    [type |-> "chunk", chunk |-> c, tokens_used |-> 0, model_used |-> "",
     error |-> NoError, limit |-> -1, used |-> -1]
DoneEvent(tokens_used, model) ==
    [type |-> "done", chunk |-> "", tokens_used |-> tokens_used,
     model_used |-> model, error |-> NoError, limit |-> -1, used |-> -1]
ErrorEvent(e) ==
    [type |-> "error", chunk |-> "", tokens_used |-> 0, model_used |-> "",
     error |-> e, limit |-> -1, used |-> -1]

GEMINI == "gemini"
FREEWAY == "freeway-paid"

\* A request: where it stands (pc), its arguments, what its session holds of
\* the usage row (loaded, snap), the locals of the operation (decision,
\* full_response, used_model), what it has handed to its caller (events,
\* result), and a record of what happened: the provider calls made, what each
\* provider sent (primary_reply, fallback_reply) or raised (primary_error,
\* fallback_error), the usage.total_tokens the fallback's body reported
\* (fallback_usage), how many events had been yielded when a provider failed
\* (primary_failed_after, fallback_failed_after; -1: it did not), whether
\* check_and_reset_daily returned True (did_reset), the commits made.
IdleReq ==
    [pc |-> "idle", user |-> "free", mode |-> "buffered",
     loaded |-> FALSE, snap |-> NoRow, decision |-> NoDecision,
     did_reset |-> FALSE,
     primary_calls |-> 0, fallback_calls |-> 0,
     primary_error |-> "none", fallback_error |-> "none",
     primary_reply |-> "", fallback_reply |-> "", fallback_usage |-> NoUsage,
     primary_failed_after |-> -1, fallback_failed_after |-> -1,
     full_response |-> "", used_model |-> GEMINI,
     events |-> <<>>, result |-> NoResult, commits |-> 0]

\* mutant: the commit reads the row again (an atomic increment)
SessionRow_reread(rq, db) == db

\* The usage row as the request's session sees it.  db.commit() expires what
\* the session loaded (the sessionmaker default); an attribute read after it
\* loads the row again, and the session then keeps that copy: the free
\* user's row is loaded by the limit comparison of the check, the premium
\* user's row stays expired until the commit reads it.
SessionRow(rq, db) == IF rq.loaded THEN rq.snap ELSE db

\* the rows a user can have when the model starts: none yet, or one reset at
\* the first tick with some generations of that day counted
InitRows(u) ==
    {NoRow} \cup
    {UsageRow(m, m, 0, FirstTick) :
        m \in IF u = "free"
              THEN (FREE_TIER_MESSAGE_LIMIT - 2)..FREE_TIER_MESSAGE_LIMIT
              ELSE {FREE_TIER_MESSAGE_LIMIT}}

\* personas the user can own over a run
PersonaIds == 1..MaxPersonas

NoCall == [op |-> "none"]

\* no helper called yet, no persona created yet
InitApart ==
    /\ call = NoCall
    /\ personas = [p \in PersonaIds |-> "none"]
    /\ personas_count = 0

Init ==
    /\ InitApart
    /\ now = FirstTick
    /\ usage \in {f \in [Users -> UNION {InitRows(u) : u \in Users}] :
                        \A u \in Users : f[u] \in InitRows(u)}
    /\ conversation_count = 0
    /\ req = [r \in Reqs |-> IdleReq]
    /\ started = 0
    /\ generated = IF usage["free"].present THEN usage["free"].messages_today ELSE 0

\* ------------------------------------------------- the fallback policy
\* mutant: a client-side 4xx reply is not retried on the fallback
CaughtByExcept_not_4xx(kind) == kind /= "http_401"

\* `except Exception as gemini_error`: which primary failures reach the
\* fallback branch
CaughtByExcept(kind) == TRUE

\* mutant: the fallback request is sent twice
CallFreeway_twice(rq) ==
    [rq EXCEPT !.pc = "fallback", !.fallback_calls = @ + 2,
               !.full_response = ""]

\* the fallback branch is entered: one call of _make_freeway_request /
\* _stream_from_freeway, full_response reset
CallFreeway(rq) ==
    [rq EXCEPT !.pc = "fallback", !.fallback_calls = @ + 1,
               !.full_response = ""]

\* mutant: the primary's failure is reported when both providers fail
SurfacedError_primary(primary_kind, fallback_kind) ==
    [src |-> "primary", kind |-> primary_kind]

\* the failure that leaves the fallback branch: `raise freeway_error`,
\* "Both Gemini and Freeway failed: {freeway_error}"
SurfacedError(primary_kind, fallback_kind) ==
    [src |-> "fallback", kind |-> fallback_kind]


\* mutant: the generator returns without yielding the error event
ErrorExit_silent(e) == <<>>

\* mutant: the generator goes on after the error event instead of returning
ErrorExit_no_return(e) == <<ErrorEvent(e), DoneEvent(0, FREEWAY)>>

\* `yield json.dumps({"error": ...})` followed by `return`, or by the end of
\* the generator: the events the failure adds
ErrorExit(e) == <<ErrorEvent(e)>>

\* mutant: used_model keeps the primary's name after the fallback answered
used_model_not_updated == GEMINI

\* used_model = "freeway-paid", set once the fallback has answered
used_model_after_fallback == FREEWAY

\* mutant: the result of the check is not looked at
QuotaExit_never(decision) == FALSE

\* `if not limit_check["allowed"]`: the operation ends with the quota outcome
QuotaExit(decision) == ~decision.allowed

\* --------------------------------------------------- the shared steps
\* The setup both operations share, up to the first provider call: the
\* usage row is fetched or created, _check_usage_limits resets and decides,
\* the persona is looked up, the prompts are built, the primary is called.
\* `over` is the terminal outcome of the request when it ends here.
Begin(r, u, mode, persona_found) ==
    LET user == UserRow(u)
        row0 == IF usage[u].present THEN usage[u] ELSE NewUsageTracking(now)
        row1 == check_and_reset_daily(row0, now)
        decision == LimitDecision(user, row1, now)
        fresh == [IdleReq EXCEPT !.user = u, !.mode = mode, !.decision = decision,
                                 !.did_reset = (row1 /= row0)]
        ended(e) ==
            IF mode = "buffered"
            THEN [fresh EXCEPT !.pc = "done",
                    !.result = IF e = QuotaError
                               THEN [NoResult EXCEPT !.kind = "quota", !.error = e,
                                        !.limit = decision.limit,
                                        !.used = decision.used]
                               ELSE [NoResult EXCEPT !.kind = "raised", !.error = e]]
            ELSE [fresh EXCEPT !.pc = "done", !.events = ErrorExit(e)]
    IN  /\ req[r].pc = "idle"
        /\ started' = started + 1
        /\ usage' = [usage EXCEPT ![u] = row1]
        /\ req' = [req EXCEPT ![r] =
                IF QuotaExit(decision) THEN ended(QuotaError)
                ELSE IF ~persona_found THEN ended(PersonaError)
                ELSE [fresh EXCEPT !.pc = "primary", !.primary_calls = 1,
                         \* is_premium returns before the expired usage row
                         \* is read again; the limit comparison reloads it
                         !.loaded = ~is_premium(user, now),
                         !.snap = IF is_premium(user, now) THEN NoRow ELSE row1]]
        /\ UNCHANGED <<now, conversation_count, generated, apart>>

\* The steps after a complete generation: tokens, _update_usage_tracking on
\* the row the session holds, the persona counter; gives the new usage row.
Committed(rq, text) ==
    LET tokens_used == TokensOf(text)
        held == _update_usage_tracking(SessionRow(rq, usage[rq.user]), tokens_used)
    IN  Flush(usage[rq.user], held, tokens_used)

Succeed(r, rq, text, model) ==
    LET tokens_used == TokensOf(text)
    IN  /\ usage' = [usage EXCEPT ![rq.user] = Committed(rq, text)]
        /\ conversation_count' = conversation_count + 1
        /\ generated' = IF rq.user = "free" THEN generated + 1 ELSE generated
        /\ req' = [req EXCEPT ![r] =
                IF rq.mode = "buffered"
                THEN [rq EXCEPT !.pc = "done", !.loaded = FALSE, !.snap = NoRow,
                        !.commits = @ + 1, !.used_model = model,
                        !.full_response = text,
                        !.result = [NoResult EXCEPT !.kind = "ok",
                                       !.response = text,
                                       !.tokens_used = tokens_used,
                                       !.model_used = model]]
                ELSE [rq EXCEPT !.pc = "done", !.loaded = FALSE, !.snap = NoRow,
                        !.commits = @ + 1, !.used_model = model,
                        !.events = Append(@, DoneEvent(tokens_used, model))]]
        /\ UNCHANGED <<now, started, apart>>

\* mutant: the usage is charged before the provider's answer is known, so a
\* failed request has paid
OnFailure_charged(rq, db) ==
    Flush(db, _update_usage_tracking(SessionRow(rq, db), 0), 0)

\* What a failing request writes to the usage row: the except branches log,
\* then re-raise or yield the error event; _update_usage_tracking and
\* db.commit() come after the provider calls and are not reached.
OnFailure(rq, db) == db

\* The request ends in failure e: the exception leaves generate_response,
\* or the generator yields the error event and returns.
Fail(r, rq, e) ==
    /\ req' = [req EXCEPT ![r] =
            IF rq.mode = "buffered"
            THEN [rq EXCEPT !.pc = "done",
                    !.result = [NoResult EXCEPT !.kind = "raised", !.error = e]]
            ELSE [rq EXCEPT !.pc = "done", !.events = @ \o ErrorExit(e)]]
    /\ usage' = [usage EXCEPT ![rq.user] = OnFailure(rq, usage[rq.user])]
    /\ UNCHANGED <<now, conversation_count, started, generated, apart>>

\* The primary attempt failed with `kind`: the except branch calls the
\* fallback; a failure the branch does not catch ends the request.
PrimaryFailed(r, kind) ==
    LET rq == [req[r] EXCEPT !.primary_error = kind,
                             !.primary_failed_after = Len(req[r].events)]
    IN  IF CaughtByExcept(kind)
        THEN /\ req' = [req EXCEPT ![r] = CallFreeway(rq)]
             /\ UNCHANGED <<now, usage, conversation_count, started, generated,
                      apart>>
        ELSE Fail(r, rq, [src |-> "primary", kind |-> kind])

\* ------------------------------------------- generate_response (buffered)
generate_response(r, users, cap) ==
    /\ started < cap
    /\ \E u \in users, persona_found \in BOOLEAN :
        Begin(r, u, "buffered", persona_found)

\* _make_gemini_request returns a body: its text, or "Empty response"
GeminiReturns(r, texts) ==
    /\ req[r].pc = "primary" /\ req[r].mode = "buffered"
    /\ \E text \in texts :
        IF text /= "" THEN Succeed(r, [req[r] EXCEPT !.primary_reply = text],
                                   text, GEMINI)
        ELSE PrimaryFailed(r, "empty")

\* _make_gemini_request raises
GeminiRaises(r, kinds) ==
    /\ req[r].pc = "primary" /\ req[r].mode = "buffered"
    /\ \E kind \in kinds : PrimaryFailed(r, kind)

\* _make_freeway_request returns a body with choices[0].message.content
FreewayReturns(r, texts, totals) ==
    /\ req[r].pc = "fallback" /\ req[r].mode = "buffered"
    /\ \E text \in texts, total_tokens \in totals :
        Succeed(r, [req[r] EXCEPT !.fallback_reply = text,
                                  !.fallback_usage = total_tokens],
                text, used_model_after_fallback)

\* _make_freeway_request raises, or its body has no choices[0].message
FreewayRaises(r, kinds) ==
    /\ req[r].pc = "fallback" /\ req[r].mode = "buffered"
    /\ \E kind \in kinds \cup {"malformed"} :
        Fail(r, [req[r] EXCEPT !.fallback_error = kind,
                               !.fallback_failed_after = 0],
             SurfacedError(req[r].primary_error, kind))

\* ------------------------------ generate_streaming_response (streamed)
generate_streaming_response(r, users, cap) ==
    /\ started < cap
    /\ \E u \in users, persona_found \in BOOLEAN :
        Begin(r, u, "stream", persona_found)

\* _stream_from_gemini yields a delta: it is accumulated and passed on
GeminiStreamChunk(r, chunks) ==
    /\ req[r].pc = "primary" /\ req[r].mode = "stream"
    /\ Len(req[r].events) < MaxChunks
    /\ \E c \in chunks :
        req' = [req EXCEPT ![r].full_response = @ \o c,
                           ![r].primary_reply = @ \o c,
                           ![r].events = Append(@, ChunkEvent(c))]
    /\ UNCHANGED <<now, usage, conversation_count, started, generated,
                      apart>>

\* _stream_from_gemini is exhausted
GeminiStreamEnds(r) ==
    /\ req[r].pc = "primary" /\ req[r].mode = "stream"
    /\ IF req[r].full_response /= ""
       THEN Succeed(r, req[r], req[r].full_response, GEMINI)
       ELSE PrimaryFailed(r, "empty")

\* _stream_from_gemini raises: raise_for_status() before the first line,
\* a transport error or timeout at any line
GeminiStreamRaises(r, kinds) ==
    /\ req[r].pc = "primary" /\ req[r].mode = "stream"
    /\ \E kind \in kinds :
        /\ (req[r].events /= <<>> => kind = "timeout")
        /\ PrimaryFailed(r, kind)

\* _stream_from_freeway yields a delta
FreewayStreamChunk(r, chunks) ==
    /\ req[r].pc = "fallback" /\ req[r].mode = "stream"
    /\ Len(req[r].events) < MaxChunks
    /\ \E c \in chunks :
        req' = [req EXCEPT ![r].full_response = @ \o c,
                           ![r].fallback_reply = @ \o c,
                           ![r].events = Append(@, ChunkEvent(c))]
    /\ UNCHANGED <<now, usage, conversation_count, started, generated,
                      apart>>

\* _stream_from_freeway is exhausted, or reads "data: [DONE]"
FreewayStreamEnds(r) ==
    /\ req[r].pc = "fallback" /\ req[r].mode = "stream"
    /\ Succeed(r, req[r], req[r].full_response, used_model_after_fallback)

\* _stream_from_freeway raises
FreewayStreamRaises(r, kinds) ==
    /\ req[r].pc = "fallback" /\ req[r].mode = "stream"
    /\ \E kind \in kinds :
        /\ (req[r].fallback_reply /= "" => kind = "timeout")
        /\ Fail(r, [req[r] EXCEPT !.fallback_error = kind,
                                  !.fallback_failed_after = Len(req[r].events)],
                SurfacedError(req[r].primary_error, kind))

\* mutant: the usage update sits in a finally block and runs as the generator
\* is closed
OnClose_commits(rq, db) ==
    LET tokens_used == TokensOf(rq.full_response)
    IN  Flush(db, _update_usage_tracking(SessionRow(rq, db), tokens_used),
              tokens_used)

\* What closing the generator before it has finished writes to the usage
\* row: CancelledError and GeneratorExit are not Exceptions, so neither
\* `except Exception` branch runs, and the statements after the stream loops
\* are never reached.
OnClose(rq, db) == db

\* The caller goes away while the generator waits for a provider or is
\* suspended at the yield of a chunk: the response task is cancelled and the
\* generator closed.
Disconnect(r) ==
    LET u == req[r].user
    IN  /\ req[r].mode = "stream"
        /\ req[r].pc \in {"primary", "fallback"}
        /\ usage' = [usage EXCEPT ![u] = OnClose(req[r], usage[u])]
        /\ req' = [req EXCEPT ![r].pc = "cancelled"]
        /\ UNCHANGED <<now, conversation_count, started, generated, apart>>

\* The endpoint has answered: get_db closes the session, the slot is free
\* for the caller's next request.
Release(r) ==
    /\ req[r].pc \in {"done", "cancelled"}
    /\ req' = [req EXCEPT ![r] = IdleReq]
    /\ UNCHANGED <<now, usage, conversation_count, started, generated,
                      apart>>

\* ------------------------------------------------------- the scheduler
\* the UPDATE of reset_daily_counters on one row
ZeroedRow(row, t) ==
    IF row.present
    THEN [row EXCEPT !.messages_today = 0,
                     !.gemini_api_calls_today = 0,
                     !.messages_count_reset_at = t]
    ELSE row

\* scheduler.reset_daily_counters, the cron job of hour=0, minute=0: one
\* UPDATE over every usage row, whatever its reset date
reset_daily_counters ==
    /\ now % TicksPerDay = 0
    /\ usage' = [u \in Users |-> ZeroedRow(usage[u], now)]
    /\ UNCHANGED <<now, conversation_count, req, started, generated, apart>>

\* --------------------------------------------------------------- the clock
Tick ==
    /\ now < LastTick
    /\ now' = now + 1
    /\ generated' = IF Date(now + 1) > Date(now) THEN 0 ELSE generated
    /\ UNCHANGED <<usage, conversation_count, req, started, apart>>

\* ------------------------------------------------- conversation history
\* sequences over S of length at most n
RECURSIVE SeqsUpTo(_, _)
SeqsUpTo(S, n) ==
    IF n = 0 THEN {<<>>}
    ELSE LET shorter == SeqsUpTo(S, n - 1)
         IN  shorter \cup {Append(q, x) : q \in shorter, x \in S}

\* ChatMessage rows of a session: when created, by whom, the text
SenderTypes == {"user", "ai"}
ChatMessages ==
    [created_at : 1..MaxTurns, sender_type : SenderTypes, text : {"m"}]
Histories == SeqsUpTo(ChatMessages, MaxTurns)

\* limits _build_conversation_history is called with
Limits == 0..MaxTurns

\* one step of sorted(): x goes behind every message not created later
InsertByCreatedAt(x, sorted) ==
    LET keep == {i \in 1..Len(sorted) : sorted[i].created_at <= x.created_at}
        k == Cardinality(keep)
    IN  SubSeq(sorted, 1, k) \o <<x>> \o SubSeq(sorted, k + 1, Len(sorted))

\* sorted(messages, key=lambda x: x.created_at): ascending and stable
RECURSIVE SortedByCreatedAt(_)
SortedByCreatedAt(messages) ==
    IF messages = <<>> THEN <<>>
    ELSE InsertByCreatedAt(messages[Len(messages)],
            SortedByCreatedAt(SubSeq(messages, 1, Len(messages) - 1)))

\* seq[-limit:], the Python slice: the start index is -limit counted from
\* the end when -limit is negative, and -limit itself (0) when limit is 0
LastSlice(seq, limit) ==
    LET n == Len(seq)
        start == IF -limit < 0
                 THEN (IF n - limit > 0 THEN n - limit ELSE 0)
                 ELSE (IF -limit < n THEN -limit ELSE n)
    IN  SubSeq(seq, start + 1, n)

\* the role of a stored message in the provider's format
RoleOf(msg) == IF msg.sender_type = "user" THEN "user" ELSE "assistant"

\* recent_messages = sorted(messages, key=...)[-limit:]
RecentMessages(messages, limit) ==
    LastSlice(SortedByCreatedAt(messages), limit)

\* GeminiService._build_conversation_history
_build_conversation_history(messages, limit) ==
    LET recent_messages == RecentMessages(messages, limit)
    IN  [i \in 1..Len(recent_messages) |->
            [role |-> RoleOf(recent_messages[i]),
             content |-> recent_messages[i].text]]

\* --------------------------------------------- the chat's greeting marker
\* a message text is a sequence of words; " " is whitespace, "[GREETING]"
\* the marker
Words == {" ", "[GREETING]", "hi"}
MessageTexts == SeqsUpTo(Words, MaxWords)
\* the messages a chat session holds when a message is sent
StoredHistories == SeqsUpTo(ChatMessages, 1)

\* str.strip(): leading and trailing whitespace removed
RECURSIVE Strip(_)
Strip(text) ==
    IF text = <<>> THEN text
    ELSE IF Head(text) = " " THEN Strip(Tail(text))
    ELSE IF text[Len(text)] = " " THEN Strip(SubSeq(text, 1, Len(text) - 1))
    ELSE text

GREETING == <<"[GREETING]">>
INTRODUCE == <<"Please introduce yourself in character.">>

\* mutant: the marker is compared without strip()
is_greeting_no_strip(message_text) == message_text = GREETING

\* is_greeting = message_text.strip() == "[GREETING]"
is_greeting(message_text) == Strip(message_text) = GREETING

\* what generate_response sends to the provider for its arguments: the
\* history built from conversation_history, then the user turn
ProviderMessages(user_message, conversation_history, limit) ==
    [history |-> _build_conversation_history(conversation_history, limit),
     user_turn |-> user_message]

\* ChatService.send_message up to the provider call.  The session's new
\* user message has been added to the session before the history query; the
\* query sees it when the session autoflushes (`flushed`).
send_message(message_text, stored, created_at, flushed, limit) ==
    LET actual_message == IF is_greeting(message_text) THEN INTRODUCE
                          ELSE message_text
        user_message == [created_at |-> created_at, sender_type |-> "user",
                         text |-> "m"]
        conversation_history == IF flushed THEN Append(stored, user_message)
                                ELSE stored
        sent == ProviderMessages(actual_message,
                    IF is_greeting(message_text) THEN <<>>
                    ELSE conversation_history, limit)
    IN  /\ call = NoCall
        /\ call' = [op |-> "send_message", message_text |-> message_text,
                    stored |-> stored, history |-> sent.history,
                    user_turn |-> sent.user_turn]

\* POST /ai/generate and POST /ai/stream with a session_id, up to the
\* provider call: the stored messages of the session and the request's text
\* go to the service as they are
ai_generate(user_message, stored, limit) ==
    LET sent == ProviderMessages(user_message, stored, limit)
    IN  /\ call = NoCall
        /\ call' = [op |-> "ai_generate", message_text |-> user_message,
                    stored |-> stored, history |-> sent.history,
                    user_turn |-> sent.user_turn]

\* the call is over
Return ==
    /\ call /= NoCall
    /\ call' = NoCall

\* ------------------------------------------------------ the system prompt
\* a text field that is None or "" is "", a list field that is None or []
\* is <<>>
PersonaSources ==
    [name : {"n"}, bio : {"", "b"}, description : {"", "d"},
     personality_traits : {<<>>, <<"t1", "t2">>},
     language_style : {"", "s"}, expertise : {<<>>, <<"e">>}]
KnowledgeBases ==
    [status : {"active", "processing"}, content : {"", "k"},
     source_name : {"src"}]
KnowledgeLists == SeqsUpTo(KnowledgeBases, MaxEntries)

Part(section, data) == [section |-> section, data |-> data]

\* the parts the loop over knowledge_bases appends
RECURSIVE KnowledgeParts(_)
KnowledgeParts(knowledge_bases) ==
    IF knowledge_bases = <<>> THEN <<>>
    ELSE LET kb == Head(knowledge_bases)
         IN  (IF kb.status = "active" /\ kb.content /= ""
              THEN <<Part("kb_label", kb.source_name),
                     Part("kb_content", kb.content)>>
              ELSE <<>>)
             \o KnowledgeParts(Tail(knowledge_bases))

\* GeminiService._build_system_prompt: prompt_parts, which the function joins
\* with blank lines
_build_system_prompt(persona, knowledge_bases) ==
    <<Part("identity", persona.name)>>
    \o (IF persona.bio /= "" THEN <<Part("bio", persona.bio)>> ELSE <<>>)
    \o (IF persona.description /= ""
        THEN <<Part("description", persona.description)>> ELSE <<>>)
    \o (IF persona.personality_traits /= <<>>
        THEN <<Part("traits", persona.personality_traits)>> ELSE <<>>)
    \o (IF persona.language_style /= ""
        THEN <<Part("style", persona.language_style)>> ELSE <<>>)
    \o (IF persona.expertise /= <<>>
        THEN <<Part("expertise", persona.expertise)>> ELSE <<>>)
    \o (IF knowledge_bases /= <<>>
        THEN <<Part("kb_header", "Knowledge Base:")>>
             \o KnowledgeParts(knowledge_bases)
        ELSE <<>>)
    \o <<Part("closing", "RESPONSE GUIDELINES")>>

\* a call of _build_conversation_history
BuildConversationHistory(messages, limit) ==
    /\ call = NoCall
    /\ call' = [op |-> "_build_conversation_history", messages |-> messages,
                limit |-> limit,
                recent_messages |-> RecentMessages(messages, limit),
                history |-> _build_conversation_history(messages, limit)]

\* a call of _build_system_prompt
BuildSystemPrompt(persona, knowledge_bases) ==
    /\ call = NoCall
    /\ call' = [op |-> "_build_system_prompt", persona |-> persona,
                knowledge_bases |-> knowledge_bases,
                prompt_parts |-> _build_system_prompt(persona, knowledge_bases)]

\* ------------------------------------------------------------ sentiment
\* a text is a sequence of characters, here a concatenation of a few pieces
Pieces ==
    {<<"G", "o", "o", "d">>,
     <<"b", "a", "d">>,
     <<"N", "O">>,
     <<"!">>,
     <<"k", "n", "o", "w">>,
     <<"s">>,
     <<"a", "d">>}
RECURSIVE Concat(_)
Concat(pieces) ==
    IF pieces = <<>> THEN <<>> ELSE Head(pieces) \o Concat(Tail(pieces))
SentimentTexts == {Concat(q) : q \in SeqsUpTo(Pieces, MaxWords)}

LowerChar(c) ==
    CASE c = "G" -> "g"
      [] c = "N" -> "n"
      [] c = "O" -> "o"
      [] OTHER -> c

\* mutant: the text is searched as it is written
Lower_as_written(text) == text

\* str.lower()
Lower(text) == [i \in 1..Len(text) |-> LowerChar(text[i])]

\* word in text: word is a substring of text
Contains(word, text) ==
    \E i \in 1..(Len(text) - Len(word) + 1) :
        SubSeq(text, i, i + Len(word) - 1) = word

positive_words ==
    <<<<"h", "a", "p", "p", "y">>,
      <<"g", "r", "e", "a", "t">>,
      <<"e", "x", "c", "e", "l", "l", "e", "n", "t">>,
      <<"g", "o", "o", "d">>,
      <<"w", "o", "n", "d", "e", "r", "f", "u", "l">>,
      <<"a", "m", "a", "z", "i", "n", "g">>,
      <<"l", "o", "v", "e">>,
      <<"y", "e", "s">>,
      <<"!">>>>
negative_words ==
    <<<<"s", "o", "r", "r", "y">>,
      <<"s", "a", "d">>,
      <<"b", "a", "d">>,
      <<"t", "e", "r", "r", "i", "b", "l", "e">>,
      <<"n", "o">>,
      <<"u", "n", "f", "o", "r", "t", "u", "n", "a", "t", "e", "l", "y">>,
      <<"p", "r", "o", "b", "l", "e", "m">>,
      <<"i", "s", "s", "u", "e">>>>

\* sum(1 for word in words if word in text)
RECURSIVE CountIn(_, _)
CountIn(words, text) ==
    IF words = <<>> THEN 0
    ELSE (IF Contains(Head(words), text) THEN 1 ELSE 0)
         + CountIn(Tail(words), text)

\* GeminiService._analyze_sentiment
_analyze_sentiment(text) ==
    LET text_lower == Lower(text)
        positive_count == CountIn(positive_words, text_lower)
        negative_count == CountIn(negative_words, text_lower)
    IN  IF positive_count > negative_count THEN "positive"
        ELSE IF negative_count > positive_count THEN "negative"
        ELSE "neutral"

\* a call of _analyze_sentiment
AnalyzeSentiment(text) ==
    /\ call = NoCall
    /\ call' = [op |-> "_analyze_sentiment", text |-> text,
                result |-> _analyze_sentiment(text)]

\* the requests, the usage rows and the clock stay as they are
RequestsUnchanged ==
    UNCHANGED <<now, usage, conversation_count, req, started, generated>>

\* ------------------------------------------------------ specifications
\* the operation has returned, or the generator has run to its end
Finished(rq) == rq.pc = "done"

\* One request at a time, in full detail, both tiers, the clock running.
Next ==
    \/ generate_response(1, Users, MaxSerial)
    \/ GeminiReturns(1, Texts)
    \/ GeminiRaises(1, Failures)
    \/ FreewayReturns(1, Texts, ReportedUsage)
    \/ FreewayRaises(1, Failures)
    \/ generate_streaming_response(1, Users, MaxSerial)
    \/ GeminiStreamChunk(1, Chunks)
    \/ GeminiStreamEnds(1)
    \/ GeminiStreamRaises(1, Failures)
    \/ FreewayStreamChunk(1, Chunks)
    \/ FreewayStreamEnds(1)
    \/ FreewayStreamRaises(1, Failures)
    \/ Disconnect(1)
    \/ Release(1)
    \/ Tick

Spec == Init /\ [][Next]_vars

\* One request at a time around midnight, with the scheduler's job: both
\* tiers and both operations, the providers' replies kept to one delta.
NextDay ==
    \/ generate_response(1, Users, MaxSerial)
    \/ GeminiReturns(1, {"", "a", "bbbb"})
    \/ GeminiRaises(1, {"timeout"})
    \/ FreewayReturns(1, {"a", "bbbb"}, {NoUsage})
    \/ FreewayRaises(1, {"timeout"})
    \/ generate_streaming_response(1, Users, MaxSerial)
    \/ GeminiStreamChunk(1, {"bbbb"})
    \/ GeminiStreamEnds(1)
    \/ GeminiStreamRaises(1, {"timeout"})
    \/ FreewayStreamChunk(1, {"a"})
    \/ FreewayStreamEnds(1)
    \/ FreewayStreamRaises(1, {"timeout"})
    \/ Release(1)
    \/ reset_daily_counters
    \/ Tick

SpecDay == Init /\ [][NextDay]_vars

\* The free user's requests one after the other within one UTC day, the day
\* that begins with the scheduler's job: a request begins only when the one
\* before it has returned and its slot is released.
NextSerial ==
    \/ generate_response(1, {"free"}, MaxBurst)
    \/ GeminiReturns(1, {"", "bbbb"})
    \/ GeminiRaises(1, {"timeout"})
    \/ FreewayReturns(1, {"bbbb"}, {NoUsage})
    \/ FreewayRaises(1, {"timeout"})
    \/ generate_streaming_response(1, {"free"}, MaxBurst)
    \/ GeminiStreamChunk(1, {"bbbb"})
    \/ GeminiStreamEnds(1)
    \/ GeminiStreamRaises(1, {"timeout"})
    \/ FreewayStreamChunk(1, {"a"})
    \/ FreewayStreamEnds(1)
    \/ FreewayStreamRaises(1, {"timeout"})
    \/ Release(1)
    \/ reset_daily_counters

SpecSerial == Init /\ [][NextSerial]_vars

\* The free user's buffered requests overlapping within one UTC day, each on
\* its own session.
NextRace ==
    \E r \in Reqs :
        \/ generate_response(r, {"free"}, MaxBurst)
        \/ GeminiReturns(r, {"", "bbbb"})
        \/ GeminiRaises(r, {"http_503"})
        \/ FreewayReturns(r, {"bbbb"}, {NoUsage})
        \/ FreewayRaises(r, {"http_503"})
        \/ Release(r)

SpecRace == Init /\ [][NextRace]_vars


\* The same request made twice by one user, the providers free to behave
\* the same way both times: slot 1 is the buffered call, slot 2 the streamed
\* call made once the buffered one has returned.
NextPair ==
    \/ generate_response(1, Users, MaxBurst)
    \/ GeminiReturns(1, Texts)
    \/ GeminiRaises(1, Failures)
    \/ FreewayReturns(1, Texts, {NoUsage})
    \/ FreewayRaises(1, Failures)
    \/ /\ Finished(req[1])
       /\ generate_streaming_response(2, {req[1].user}, MaxBurst)
    \/ GeminiStreamChunk(2, Chunks)
    \/ GeminiStreamEnds(2)
    \/ GeminiStreamRaises(2, Failures)
    \/ FreewayStreamChunk(2, Chunks)
    \/ FreewayStreamEnds(2)
    \/ FreewayStreamRaises(2, Failures)

SpecPair == Init /\ [][NextPair]_vars

\* ----------------------------------------------------------- the personas
\* settings.FREE_TIER_PERSONA_LIMIT
FREE_TIER_PERSONA_LIMIT == 3

\* the account whose personas the model follows
Creator == "free"

\* PersonaService.check_persona_limit: "allowed"
check_persona_limit(user, count) ==
    IF is_premium(user, now) THEN TRUE
    ELSE ~(count >= FREE_TIER_PERSONA_LIMIT)

\* db.add(persona) with status "active" under a new id, then
\* usage.personas_count += 1 and the commit
AddPersona(row) ==
    \E p \in PersonaIds :
        /\ personas[p] = "none"
        /\ personas' = [personas EXCEPT ![p] = "active"]
        /\ personas_count' = personas_count + 1
        /\ usage' = [usage EXCEPT ![Creator] = row]

\* PersonaService.create_persona: the usage row is created when missing; a
\* denied limit check raises ValueError after that
create_persona ==
    LET row == IF usage[Creator].present THEN usage[Creator]
               ELSE NewUsageTracking(now)
    IN  /\ IF check_persona_limit(UserRow(Creator), personas_count)
           THEN AddPersona(row)
           ELSE /\ usage' = [usage EXCEPT ![Creator] = row]
                /\ UNCHANGED <<personas, personas_count>>
        /\ UNCHANGED <<now, conversation_count, req, started, generated, call>>

\* PersonaService.clone_persona of an original the user can read: a persona
\* of their own, whatever its status, or a public one of somebody else
\* (own = FALSE).  Without a usage row check_persona_limit fails on
\* usage.personas_count; a denied limit check raises ValueError.
clone_persona(original, own) ==
    /\ own => personas[original] /= "none"
    /\ IF usage[Creator].present
            /\ check_persona_limit(UserRow(Creator), personas_count)
       THEN AddPersona(usage[Creator])
       ELSE UNCHANGED <<usage, personas, personas_count>>
    /\ UNCHANGED <<now, conversation_count, req, started, generated, call>>

\* the personas delete_persona finds: the query filters by id and creator
Deletable(status) == status /= "none"

\* PersonaService.delete_persona: soft delete, then the count goes down when
\* it is above 0
delete_persona(persona_id) ==
    /\ IF Deletable(personas[persona_id])
       THEN /\ personas' = [personas EXCEPT ![persona_id] = "deleted"]
            /\ personas_count' =
                    IF usage[Creator].present /\ personas_count > 0
                    THEN personas_count - 1 ELSE personas_count
       ELSE UNCHANGED <<personas, personas_count>>
    /\ UNCHANGED <<now, usage, conversation_count, req, started, generated,
                   call>>

\* One user creating, cloning and deleting personas.
NextPersonas ==
    \/ create_persona
    \/ \E original \in PersonaIds, own \in BOOLEAN :
            clone_persona(original, own)
    \/ \E persona_id \in PersonaIds : delete_persona(persona_id)

SpecPersonas == Init /\ [][NextPersonas]_vars

\* The helpers of a generation, each called on its own with arguments drawn
\* from small sets, and the two ways a message text reaches the service; a
\* call begins when no other is in progress.
NextHelpers ==
    \/ /\ call = NoCall
       /\ \E message_text \in MessageTexts, stored \in StoredHistories,
             flushed \in BOOLEAN :
               /\ send_message(message_text, stored, MaxTurns, flushed, MaxTurns)
               /\ UNCHANGED <<personas, personas_count>>
               /\ RequestsUnchanged
    \/ /\ call = NoCall
       /\ \E user_message \in MessageTexts, stored \in StoredHistories :
               /\ ai_generate(user_message, stored, MaxTurns)
               /\ UNCHANGED <<personas, personas_count>>
               /\ RequestsUnchanged
    \/ /\ call = NoCall
       /\ \E persona \in PersonaSources, knowledge_bases \in KnowledgeLists :
               /\ BuildSystemPrompt(persona, knowledge_bases)
               /\ UNCHANGED <<personas, personas_count>>
               /\ RequestsUnchanged
    \/ /\ call = NoCall
       /\ \E messages \in Histories, limit \in Limits :
               /\ BuildConversationHistory(messages, limit)
               /\ UNCHANGED <<personas, personas_count>>
               /\ RequestsUnchanged
    \/ /\ call = NoCall
       /\ \E text \in SentimentTexts :
               /\ AnalyzeSentiment(text)
               /\ UNCHANGED <<personas, personas_count>>
               /\ RequestsUnchanged
    \/ /\ Return
       /\ UNCHANGED <<personas, personas_count>>
       /\ RequestsUnchanged

\* no request is in progress and no usage row exists yet
InitHelpers ==
    /\ InitApart
    /\ now = FirstTick
    /\ usage = [u \in Users |-> NoRow]
    /\ conversation_count = 0
    /\ req = [r \in Reqs |-> IdleReq]
    /\ started = 0
    /\ generated = 0

SpecHelpers == InitHelpers /\ [][NextHelpers]_vars

\* ------------------------------------------------ reading off a request
RECURSIVE StreamText(_)
\* the deltas of the chunk events of a stream, joined in emission order
StreamText(events) ==
    IF events = <<>> THEN ""
    ELSE StreamText(SubSeq(events, 1, Len(events) - 1))
            \o events[Len(events)].chunk

LastEvent(rq) == rq.events[Len(rq.events)]

\* the request ended with a generation: a result dict, or the done event
Succeeded(rq) ==
    /\ Finished(rq)
    /\ IF rq.mode = "buffered" THEN rq.result.kind = "ok"
       ELSE rq.events /= <<>> /\ LastEvent(rq).type = "done"

\* the request ended in failure: an exception out of generate_response, or
\* the error event
Failed(rq) ==
    /\ Finished(rq)
    /\ IF rq.mode = "buffered" THEN rq.result.kind = "raised"
       ELSE rq.events /= <<>> /\ LastEvent(rq).type = "error"

\* the failure handed to the caller
Surfaced(rq) ==
    IF rq.mode = "buffered" THEN rq.result.error ELSE LastEvent(rq).error

\* the text handed to the caller
ReturnedText(rq) ==
    IF rq.mode = "buffered" THEN rq.result.response ELSE StreamText(rq.events)

\* the provider named to the caller
ReturnedModel(rq) ==
    IF rq.mode = "buffered" THEN rq.result.model_used
    ELSE LastEvent(rq).model_used

\* tokens_used as handed to the caller
ReturnedTokens(rq) ==
    IF rq.mode = "buffered" THEN rq.result.tokens_used
    ELSE LastEvent(rq).tokens_used

\* The providers behaved the same way towards the buffered request b and the
\* streamed request s: each provider either delivered the same complete text
\* to both or failed both the same way (a buffered call sees nothing of the
\* data received before a failure).
SameProviderBehaviour(b, s) ==
    /\ b.primary_calls = s.primary_calls
    /\ b.fallback_calls = s.fallback_calls
    /\ b.primary_error = s.primary_error
    /\ (b.primary_error = "none" => b.primary_reply = s.primary_reply)
    /\ b.fallback_error = s.fallback_error
    /\ (b.fallback_error = "none" => b.fallback_reply = s.fallback_reply)

\* POST /ai/generate: what is raised inside the endpoint's try block for the
\* outcome of generate_response
RaisedInTry(result) ==
    IF result.kind = "ok" THEN "none"
    ELSE IF result.kind = "quota" THEN "HTTPException(429)"
    ELSE IF result.error = PersonaError THEN "ValueError"
    ELSE "Exception"

\* POST /ai/generate: the status of the answer.  `except ValueError` gives
\* 404; `except Exception` gives 500, and it also catches the HTTPException
\* raised inside the try block.
EndpointStatus(result) ==
    LET raised == RaisedInTry(result)
    IN  IF raised = "none" THEN 200
        ELSE IF raised = "ValueError" THEN 404
        ELSE 500

\* the step of slot r that is its check
CheckStep(r) == req[r].pc = "idle" /\ req'[r].pc /= "idle"

\* the step of slot r that completes a generation
SuccessStep(r) == ~Finished(req[r]) /\ Succeeded(req'[r])

ServerSide == {"http_503", "timeout", "empty"}

\* ------------------------------------------------------------- the claims

C2_FallbackOn503 ==
    \A r \in Reqs :
        req[r].primary_error = "http_503" =>
            /\ req[r].fallback_calls = 1
            /\ (Finished(req[r]) /\ req[r].fallback_error = "none" =>
                    /\ Succeeded(req[r])
                    /\ ReturnedText(req[r]) = req[r].fallback_reply
                    /\ ReturnedModel(req[r]) = FREEWAY)

C2_Witness ==
    \E r \in Reqs :
        /\ req[r].primary_error = "http_503"
        /\ Succeeded(req[r])
        /\ req[r].fallback_reply /= ""
        /\ ReturnedText(req[r]) = req[r].fallback_reply

\* C3, as stated: a streamed request calls the fallback only when the primary
\* failed before any chunk was yielded; a primary failure after a chunk ends
\* the stream with the error event.
C3_NoFallbackAfterChunk ==
    \A r \in Reqs :
        req[r].mode = "stream" /\ req[r].primary_failed_after > 0 =>
            /\ req[r].fallback_calls = 0
            /\ Failed(req[r])

\* C4, as stated: the free user's counter never exceeds the limit by more
\* than one, and a burst gives at most one generation beyond the limit.
C4_OneExtraGeneration ==
    /\ usage["free"].present =>
            usage["free"].messages_today <= FREE_TIER_MESSAGE_LIMIT + 1
    /\ generated <= FREE_TIER_MESSAGE_LIMIT + 1

\* C4, amended: the free user's counter never exceeds the limit itself (every
\* commit writes the value its own check read, plus one).
C4_CounterWithinLimit ==
    usage["free"].present =>
        usage["free"].messages_today <= FREE_TIER_MESSAGE_LIMIT

\* three overlapping requests have all generated: two generations beyond
\* the limit, the counter at the limit
C4_Witness ==
    /\ usage["free"].present
    /\ usage["free"].messages_today = FREE_TIER_MESSAGE_LIMIT
    /\ generated >= FREE_TIER_MESSAGE_LIMIT + 2

\* C5: a check of a limited-tier user that finds messages_today = limit (after
\* the reset) denies, with the configured limit and used = limit.
C5_DeniedAtLimit ==
    [][\A r \in Reqs :
        LET u == req'[r].user
        IN  (/\ CheckStep(r)
             /\ ~is_premium(UserRow(u), now)
             /\ usage'[u].messages_today = FREE_TIER_MESSAGE_LIMIT)
            => /\ req'[r].decision =
                    [allowed |-> FALSE, limit |-> FREE_TIER_MESSAGE_LIMIT,
                     used |-> FREE_TIER_MESSAGE_LIMIT]
               /\ req'[r].pc = "done"
               /\ req'[r].primary_calls = 0]_vars

C5_Witness ==
    \E r \in Reqs :
        /\ Finished(req[r])
        /\ ~req[r].decision.allowed
        /\ req[r].decision.used = FREE_TIER_MESSAGE_LIMIT
        /\ usage[req[r].user].messages_today = FREE_TIER_MESSAGE_LIMIT

\* C6: a check made on a later UTC day than the row's last reset leaves
\* messages_today = 0, api calls = 0 and the reset date at today, and decides
\* on the zeroed counter: the limited user is allowed.
C6_ResetOnNewDay ==
    [][\A r \in Reqs :
        LET u == req'[r].user
        IN  (/\ CheckStep(r)
             /\ usage[u].present
             /\ Date(now) > Date(usage[u].messages_count_reset_at))
            => /\ usage'[u].messages_today = 0
               /\ usage'[u].gemini_api_calls_today = 0
               /\ Date(usage'[u].messages_count_reset_at) = Date(now)
               /\ req'[r].decision.allowed]_vars

C6_Witness ==
    \E r \in Reqs :
        /\ req[r].user = "free"
        /\ req[r].did_reset
        /\ req[r].decision.allowed
        /\ req[r].pc = "primary"
        /\ usage["free"].messages_today = 0
        /\ Date(usage["free"].messages_count_reset_at) = Date(now)

\* C7, as stated: a streamed request in which a provider failed after a chunk
\* had been yielded ends with the error event and commits nothing.
C7_PartialFailureNoCommit ==
    \A r \in Reqs :
        (/\ req[r].mode = "stream"
         /\ Finished(req[r])
         /\ (req[r].primary_failed_after > 0 \/ req[r].fallback_failed_after > 0))
        => /\ Failed(req[r])
           /\ req[r].commits = 0

\* C8: the events of a stream are chunk events, then, once the generator has
\* finished, exactly one terminal event (done or error) at the end.
C8_StreamProtocol ==
    \A r \in Reqs :
        req[r].mode = "stream" =>
            LET ev == req[r].events
                n == Len(ev)
            IN  IF Finished(req[r])
                THEN /\ n >= 1
                     /\ ev[n].type \in {"done", "error"}
                     /\ \A i \in 1..(n - 1) : ev[i].type = "chunk"
                ELSE \A i \in 1..n : ev[i].type = "chunk"

C8_Witness ==
    \E r \in Reqs :
        /\ req[r].mode = "stream"
        /\ Finished(req[r])
        /\ Len(req[r].events) >= 2
        /\ LastEvent(req[r]).type = "error"
        /\ req[r].fallback_error /= "none"

\* C9: a request calls the primary at most once and the fallback at most once.
C9_AtMostTwoCalls ==
    \A r \in Reqs :
        /\ req[r].primary_calls <= 1
        /\ req[r].fallback_calls <= 1

C9_Witness ==
    \E r \in Reqs :
        /\ Finished(req[r])
        /\ req[r].fallback_error /= "none"
        /\ req[r].primary_calls = 1
        /\ req[r].fallback_calls = 1

\* C10: when the primary failed with a server-side failure and the fallback
\* failed too, the request ends in failure and the failure handed to the
\* caller is the fallback's.
C10_FallbackFailureSurfaced ==
    \A r \in Reqs :
        (/\ Finished(req[r])
         /\ req[r].primary_error \in ServerSide
         /\ req[r].fallback_error /= "none")
        => /\ Failed(req[r])
           /\ Surfaced(req[r]) =
                [src |-> "fallback", kind |-> req[r].fallback_error]

C10_Witness ==
    \E r \in Reqs :
        /\ Failed(req[r])
        /\ req[r].primary_error = "http_503"
        /\ req[r].fallback_error = "http_401"
        /\ Surfaced(req[r]) = [src |-> "fallback", kind |-> "http_401"]

\* C11: when the caller of a stream goes away before the generator has
\* finished, the request commits nothing: the step that closes the generator
\* leaves every usage row and the persona counter as they were, and the
\* request has made no commit and yielded no done event.
C11_CancelNoCommit ==
    [][\A r \in Reqs :
        (req[r].pc /= "cancelled" /\ req'[r].pc = "cancelled")
        => /\ usage' = usage
           /\ conversation_count' = conversation_count
           /\ req'[r].commits = 0
           /\ \A i \in 1..Len(req'[r].events) :
                    req'[r].events[i].type = "chunk"]_vars

\* a stream cancelled after its second delta, the second from the fallback
C11_Witness ==
    \E r \in Reqs :
        /\ req[r].pc = "cancelled"
        /\ Len(req[r].events) = 2
        /\ req[r].fallback_reply /= ""
        /\ req[r].commits = 0

\* C12: a request whose check denies ends in that same step with the quota
\* outcome: no provider has been called, nothing is committed (the usage
\* rows are as before the check) and the persona counter is not incremented.
C12_QuotaShortCircuit ==
    [][\A r \in Reqs :
        (CheckStep(r) /\ ~req'[r].decision.allowed)
        => /\ Finished(req'[r])
           /\ req'[r].primary_calls = 0
           /\ req'[r].fallback_calls = 0
           /\ req'[r].commits = 0
           /\ usage' = usage
           /\ conversation_count' = conversation_count
           /\ IF req'[r].mode = "buffered"
              THEN /\ req'[r].result.kind = "quota"
                   /\ req'[r].result.error = QuotaError
              ELSE req'[r].events = <<ErrorEvent(QuotaError)>>]_vars

\* a denied stream: the quota error event and nothing else
C12_Witness ==
    \E r \in Reqs :
        /\ Finished(req[r])
        /\ req[r].mode = "stream"
        /\ ~req[r].decision.allowed
        /\ req[r].events = <<ErrorEvent(QuotaError)>>
        /\ req[r].primary_calls = 0
        /\ conversation_count = 0

C14_RedundantResetSafe ==
    [][\A u \in Users :
        (/\ usage[u].present
         /\ Date(usage[u].messages_count_reset_at) = Date(now)
         /\ ~\E r \in Reqs : SuccessStep(r))
        => /\ usage'[u].messages_today = usage[u].messages_today
           /\ usage'[u].gemini_api_calls_today =
                    usage[u].gemini_api_calls_today]_vars

C16_ResetAtStartOfDay ==
    \A u \in Users :
        usage[u].present =>
            /\ usage[u].messages_count_reset_at % TicksPerDay = 0
            /\ usage[u].messages_count_reset_at <= now

\* C16, amended: messages_count_reset_at of every row is not after the current
\* time, and so its UTC day is not after the current day (it is the time the
\* row was created or last reset, as read from the clock, not the start of
\* that day).
C16_ResetAtNotAfterNow ==
    \A u \in Users :
        usage[u].present =>
            /\ usage[u].messages_count_reset_at <= now
            /\ Date(usage[u].messages_count_reset_at) <= Date(now)

\* a row created by a request made later than midnight
C16_Witness ==
    \E u \in Users :
        /\ usage[u].present
        /\ usage[u].messages_count_reset_at % TicksPerDay /= 0
        /\ usage[u].messages_count_reset_at <= now

\* C17, as stated: when the buffered call has returned a text and the streamed
\* call of the same request, under the same provider behaviour, has finished,
\* the deltas of the stream's chunk events joined in order are that text.
C17_StreamEqualsBuffered ==
    (/\ Succeeded(req[1])
     /\ req[2].mode = "stream"
     /\ Finished(req[2])
     /\ req[2].user = req[1].user
     /\ SameProviderBehaviour(req[1], req[2]))
    => StreamText(req[2].events) = ReturnedText(req[1])

\* C18, as stated: a request denied by the check ends with the quota outcome
\* carrying the limit and the used count of the decision: the buffered result
\* has them and the endpoint answers 429, and the streamed error event has
\* them too.
C18_QuotaOutcomeTyped ==
    \A r \in Reqs :
        (Finished(req[r]) /\ ~req[r].decision.allowed) =>
            IF req[r].mode = "buffered"
            THEN /\ req[r].result.kind = "quota"
                 /\ req[r].result.limit = req[r].decision.limit
                 /\ req[r].result.used = req[r].decision.used
                 /\ EndpointStatus(req[r].result) = 429
            ELSE /\ LastEvent(req[r]).error = QuotaError
                 /\ LastEvent(req[r]).limit = req[r].decision.limit
                 /\ LastEvent(req[r]).used = req[r].decision.used

C20_ReportedUsageWins ==
    \A r \in Reqs :
        (Succeeded(req[r]) /\ req[r].mode = "buffered") =>
            ReturnedTokens(req[r]) =
                IF /\ ReturnedModel(req[r]) = FREEWAY
                   /\ req[r].fallback_usage /= NoUsage
                THEN req[r].fallback_usage
                ELSE Len(ReturnedText(req[r])) \div 4

\* C21, as stated: whenever the text of a generation request is the greeting
\* marker, the history sent to the provider is empty and the user turn is the
\* self-introduction instruction, whichever way the request came in.
C21_GreetingBypassesHistory ==
    (call.op \in {"send_message", "ai_generate"}
        /\ Strip(call.message_text) = GREETING)
    => /\ call.history = <<>>
       /\ call.user_turn = INTRODUCE

\* C21, amended: a chat message sent through ChatService.send_message whose
\* text is the marker, whitespace around it aside, reaches the provider with
\* an empty history and the self-introduction instruction as user turn; any
\* other text reaches the provider as it is.
C21_ChatGreetingBypassesHistory ==
    call.op = "send_message" =>
        IF Strip(call.message_text) = GREETING
        THEN /\ call.history = <<>>
             /\ call.user_turn = INTRODUCE
        ELSE call.user_turn = call.message_text

\* the marker with whitespace before it, sent into a chat that has messages
C21_Witness ==
    /\ call.op = "send_message"
    /\ call.message_text = <<" ", "[GREETING]">>
    /\ call.stored /= <<>>
    /\ call.history = <<>>
    /\ call.user_turn = INTRODUCE

\* the sections of a prompt, and whether an entry can be rendered
SectionsOf(prompt_parts) ==
    {prompt_parts[i].section : i \in 1..Len(prompt_parts)}
Renderable(kb) == kb.status = "active" /\ kb.content /= ""

\* C22: a section is in the prompt only when it has data to render: the bio,
\* description, traits, style and expertise sections only for a non-empty
\* field, the knowledge-base header and blocks only when some entry is
\* renderable; with no bio, no traits and no renderable entry there is no
\* bio, traits or knowledge-base part at all.
C22_SectionsOnlyWithData ==
    call.op = "_build_system_prompt" =>
        LET sections == SectionsOf(call.prompt_parts)
            kbs == call.knowledge_bases
            renderable == \E i \in 1..Len(kbs) : Renderable(kbs[i])
        IN  /\ "identity" \in sections /\ "closing" \in sections
            /\ "bio" \in sections <=> call.persona.bio /= ""
            /\ "description" \in sections <=> call.persona.description /= ""
            /\ "traits" \in sections
                    <=> call.persona.personality_traits /= <<>>
            /\ "style" \in sections <=> call.persona.language_style /= ""
            /\ "expertise" \in sections <=> call.persona.expertise /= <<>>
            /\ "kb_header" \in sections <=> renderable
            /\ "kb_label" \in sections <=> renderable

\* the cues of a list that occur in a text, whatever the case of its letters
CuesFound(words, text) ==
    {k \in 1..Len(words) :
        \E i \in 1..Len(text) :
            /\ i + Len(words[k]) - 1 <= Len(text)
            /\ \A j \in 1..Len(words[k]) :
                    LowerChar(text[i + j - 1]) = words[k][j]}

\* C23: the tag of a text is positive iff more positive than negative cues
\* occur in it as substrings, case ignored, negative iff more negative than
\* positive ones, neutral iff as many of each; the call changes nothing but
\* its own result.
C23_TagByCueCounts ==
    /\ [](call.op = "_analyze_sentiment" =>
            LET P == Cardinality(CuesFound(positive_words, call.text))
                N == Cardinality(CuesFound(negative_words, call.text))
            IN  /\ call.result = "positive" <=> P > N
                /\ call.result = "negative" <=> N > P
                /\ call.result = "neutral" <=> P = N
                /\ call.result \in {"positive", "negative", "neutral"})
    /\ [][call'.op = "_analyze_sentiment" =>
            UNCHANGED <<now, usage, conversation_count, req, started,
                        generated, personas, personas_count>>]_vars

\* "Good" and "NO" are written in capitals: one positive cue against one
\* negative cue
C23_Witness ==
    /\ call.op = "_analyze_sentiment"
    /\ call.text = <<"G", "o", "o", "d", "N", "O">>
    /\ call.result = "neutral"

\* C24: the tokens_used of the done event of a stream is computed from the
\* concatenation of all the chunk deltas the caller received during the
\* request.
C24_DoneCountsEveryDelta ==
    \A r \in Reqs :
        req[r].mode = "stream" /\ Succeeded(req[r]) =>
            LastEvent(req[r]).tokens_used = TokensOf(StreamText(req[r].events))

\* the step of slot r that ends its request in failure
FailureStep(r) == ~Finished(req[r]) /\ Failed(req'[r])

\* C25: a request that fails after its check passed has committed nothing:
\* the step in which a provider failure ends it leaves every usage row and
\* the persona's conversation counter as they were, a request that ends at
\* the persona lookup has written what its check wrote and no more, and
\* only a request that succeeded has a commit.
C25_FailureLeavesUsage ==
    [][\A r \in Reqs :
        /\ (FailureStep(r) /\ req[r].pc \in {"primary", "fallback"})
            => /\ usage' = usage
               /\ conversation_count' = conversation_count
        /\ (FailureStep(r) /\ req[r].pc = "idle"
                /\ Surfaced(req'[r]) = PersonaError)
            => LET u == req'[r].user
                   row0 == IF usage[u].present THEN usage[u]
                           ELSE NewUsageTracking(now)
               IN  /\ usage' = [usage EXCEPT
                                    ![u] = check_and_reset_daily(row0, now)]
                   /\ conversation_count' = conversation_count
        /\ (req'[r].commits > 0 => Succeeded(req'[r]))
        /\ (Failed(req'[r]) => req'[r].commits = 0)]_vars

\* both providers failed for a free user who had messages counted today
C25_Witness ==
    \E r \in Reqs :
        /\ Failed(req[r])
        /\ req[r].user = "free"
        /\ req[r].primary_error = "timeout"
        /\ req[r].fallback_error = "http_503"
        /\ usage["free"].messages_today = FREE_TIER_MESSAGE_LIMIT - 1

\* the messages of a sequence created at t or later
NotBefore(messages, t) ==
    Cardinality({i \in 1..Len(messages) : messages[i].created_at >= t})
Min(a, b) == IF a < b THEN a ELSE b

\* C26: for every limit >= 0 and every order of the turns, the history has
\* min(limit, number of turns) entries, they are the most recent turns by
\* creation time, in ascending order of creation time, and each entry has
\* the role user for a turn of sender type user and assistant for any other.
C26_MostRecentTurns ==
    call.op = "_build_conversation_history" =>
        LET kept == call.recent_messages
            size == Min(call.limit, Len(call.messages))
        IN  /\ Len(call.history) = size
            /\ Len(kept) = size
            /\ \A i \in 1..Len(kept) :
                    \E j \in 1..Len(call.messages) : call.messages[j] = kept[i]
            /\ \A t \in 1..MaxTurns :
                    NotBefore(kept, t) = Min(size, NotBefore(call.messages, t))
            /\ \A i, j \in 1..Len(kept) :
                    i < j => kept[i].created_at <= kept[j].created_at
            /\ \A i \in 1..Len(call.history) :
                    /\ call.history[i].content = kept[i].text
                    /\ call.history[i].role =
                            IF kept[i].sender_type = "user" THEN "user"
                            ELSE "assistant"

\* C27: within one UTC day every generation that completed for the
\* limited-tier user is counted: messages_used_today and api_calls_today have
\* grown by exactly the number of completed generations, however the
\* requests overlapped.
C27_NoLostCommit ==
    usage["free"].present =>
        /\ usage["free"].messages_today = generated
        /\ usage["free"].gemini_api_calls_today = generated

\* the request ended with the quota outcome
QuotaOutcome(rq) ==
    /\ Finished(rq)
    /\ IF rq.mode = "buffered" THEN rq.result.kind = "quota"
       ELSE rq.events /= <<>> /\ LastEvent(rq).error = QuotaError

\* C28: with the requests of the limited-tier user serialized within one UTC
\* day, messages_used_today never exceeds the limit, no more than `limit`
\* generations succeed on that day, and a request gets the quota outcome only
\* when `limit` generations have succeeded on that day.
C28_SerializedQuota ==
    /\ usage["free"].present =>
            usage["free"].messages_today <= FREE_TIER_MESSAGE_LIMIT
    /\ generated <= FREE_TIER_MESSAGE_LIMIT
    /\ \A r \in Reqs :
            QuotaOutcome(req[r]) => generated = FREE_TIER_MESSAGE_LIMIT

\* C29: no request reports success, and none commits a quota unit, for a
\* generation whose text is empty, whichever provider gave it.
C29_NoEmptySuccess ==
    \A r \in Reqs :
        (Succeeded(req[r]) \/ req[r].commits > 0) =>
            req[r].full_response /= ""

\* the personas of the user that are not deleted
ActivePersonas == {p \in PersonaIds : personas[p] = "active"}

\* C30: after any sequence of create_persona, clone_persona and
\* delete_persona calls of one user, personas_count is the number of the
\* user's personas whose status is not deleted.
C30_CountIsActivePersonas ==
    personas_count = Cardinality(ActivePersonas)

====
